---- MODULE Spec2Model ----
(***************************************************************************)
(* Model of scripts deploy.py of Oak Protocol: the deployment driver       *)
(* main() and its four stage functions check_prerequisites,                *)
(* compile_contract, deploy_contract and initialize_contract.              *)
(*                                                                         *)
(* Text (the deploy tool's output, a contract address) is a sequence of    *)
(* one-character strings.  Environment values and command-line words are   *)
(* TLA+ strings; None is Python's None, Unset a local not yet assigned.    *)
(***************************************************************************)
EXTENDS Integers, Sequences, FiniteSets, TLC

VARIABLES
    pc,               \* position of the run in main() / the stage functions
    installed,        \* executables that can be launched (found on PATH)
    environ,          \* the process environment read by os.getenv
    wasm_exists,      \* whether the artifact file exists at wasm_path
    invocations,      \* every subprocess.run started, in order
    check_ret,        \* return value of check_prerequisites
    compile_ret,      \* return value of compile_contract
    private_key,      \* main's local private_key
    mnemonic,         \* main's local mnemonic
    owner_address,    \* main's local owner_address
    treasury_address, \* main's local treasury_address
    output,           \* deploy_contract's local output (stdout + stderr)
    contract_address, \* return value of deploy_contract
    init_ret,         \* return value of initialize_contract
    raised,           \* the exception that left a function unhandled, or None
    exit_status       \* the process exit status, once the run has ended

vars == <<pc, installed, environ, wasm_exists, invocations, check_ret,
          compile_ret, private_key, mnemonic, owner_address, treasury_address,
          output, contract_address, init_ret, raised, exit_status>>

None == "None"
Unset == "unset"

\* Python truthiness of an Optional[str]: None and "" are falsy.
Truthy(s) == s # None /\ s # ""

(***************************************************************************)
(* Bounds of the model.                                                    *)
(***************************************************************************)
\* The deploy tool's output is a concatenation of at most MaxFrags fragments.
MaxFrags == 3

(***************************************************************************)
(* Program constants.                                                      *)
(***************************************************************************)
\* The slice [:40] applied to the address token.
AddrLen == 40

ARBITRUM_SEPOLIA_RPC == "https://sepolia-rollup.arbitrum.io/rpc"
WASM_FILE == "target/wasm32-unknown-unknown/release/oak_protocol.wasm"

(***************************************************************************)
(* Python string operations, on sequences of characters.                   *)
(***************************************************************************)
\* str.lower(), on the letters the model's texts use.
LowerChar(c) ==
    CASE c = "A" -> "a" [] c = "B" -> "b" [] c = "C" -> "c" [] c = "D" -> "d"
      [] c = "E" -> "e" [] c = "F" -> "f" [] c = "R" -> "r" [] c = "S" -> "s"
      [] c = "X" -> "x" [] OTHER -> c

Lower(s) == [i \in DOMAIN s |-> LowerChar(s[i])]

\* str.find(sub) + 1: the first position where sub occurs in s, 0 if none.
Find(s, sub) ==
    LET hits == {i \in 1..(Len(s) - Len(sub) + 1) :
                    SubSeq(s, i, i + Len(sub) - 1) = sub}
    IN  IF hits = {} THEN 0 ELSE CHOOSE i \in hits : \A j \in hits : i <= j

\* sub in s
Contains(s, sub) == Find(s, sub) # 0

\* s.split(sep), sep a non-empty string: the list of the parts between
\* successive occurrences of sep (empty parts kept).
RECURSIVE Split(_, _)
Split(s, sep) ==
    LET i == Find(s, sep)
    IN  IF i = 0 THEN <<s>>
        ELSE <<SubSeq(s, 1, i - 1)>> \o Split(SubSeq(s, i + Len(sep), Len(s)), sep)

Whitespace == {" ", "\t", "\n", "\r"}

\* s.split() with no separator: the maximal runs of non-whitespace
\* characters; leading and trailing whitespace yields no empty part.
RECURSIVE SplitWs(_)
SplitWs(s) ==
    LET start == {i \in 1..Len(s) : s[i] \notin Whitespace}
    IN  IF start = {} THEN <<>>
        ELSE LET b == CHOOSE i \in start : \A j \in start : i <= j
                 stop == {i \in b..Len(s) : s[i] \in Whitespace}
                 e == IF stop = {} THEN Len(s) + 1
                      ELSE CHOOSE i \in stop : \A j \in stop : i <= j
             IN  <<SubSeq(s, b, e - 1)>> \o SplitWs(SubSeq(s, e, Len(s)))

\* s[:n]
Take(s, n) == SubSeq(s, 1, IF Len(s) < n THEN Len(s) ELSE n)

RECURSIVE Flatten(_)
Flatten(ss) == IF ss = <<>> THEN <<>> ELSE Head(ss) \o Flatten(Tail(ss))

(***************************************************************************)
(* Texts of the model.                                                     *)
(***************************************************************************)
Ox == <<"0", "x">>
KwDeployed == <<"d", "e", "p", "l", "o", "y", "e", "d">>
KwAddress == <<"a", "d", "d", "r", "e", "s", "s">>
UpperAddress == <<"A", "D", "D", "R", "E", "S", "S">>
Hex40 == <<"A", "B", "C", "D", "E", "F", "0", "1", "2", "3",
           "4", "5", "6", "7", "8", "9", "A", "B", "C", "D",
           "E", "F", "0", "1", "2", "3", "4", "5", "6", "7",
           "8", "9", "A", "B", "C", "D", "E", "F", "0", "1">>
Hex2 == <<"a", "b">>

\* The pieces the deploy tool's output is put together from.
Fragments == {KwDeployed, UpperAddress, Ox, <<" ">>, <<"\n">>, Hex40, Hex2}

\* Every text the deploy tool may print within the bound.
Outputs ==
    {Flatten(fs) : fs \in UNION {[1..n -> Fragments] : n \in 0..MaxFrags}}

\* The values an environment variable may have: absent, empty, or a value.
EnvValues(v) == {None, "", v}

Environments ==
    [PRIVATE_KEY : EnvValues("0xKEY"),
     MNEMONIC : {None, "test test junk"},
     OWNER_ADDRESS : EnvValues("0xOWNER"),
     TREASURY_ADDRESS : {None, "0xTREASURY"}]

\* os.getenv(name)
getenv(name) == environ[name]

(***************************************************************************)
(* Values of Optional[str] results that are texts.                         *)
(***************************************************************************)
UnsetText == [kind |-> "unset", value |-> <<>>]
NoneText == [kind |-> "None", value |-> <<>>]
Text(cs) == [kind |-> "str", value |-> cs]
Raise(exc) == [kind |-> exc, value |-> <<>>]

\* Truthiness of such a value (`not contract_address`).
TruthyText(t) == t.kind = "str" /\ t.value # <<>>

(***************************************************************************)
(* subprocess.run(cmd, check=True): the ways it can end.                   *)
(* A program that cannot be launched raises FileNotFoundError; one that    *)
(* runs either exits zero ("ok") or raises CalledProcessError.             *)
(***************************************************************************)
Outcomes(prog) ==
    IF prog \in installed THEN {"ok", "CalledProcessError"}
    ELSE {"FileNotFoundError"}

\* The text values substituted into the argv words written {like_this}.
NoSubst == [address |-> <<>>, args |-> <<>>]
Subst(address, owner, treasury) ==
    [address |-> address, args |-> <<owner, treasury>>]

\* An attempted external process: its kind, its argument vector, how it
\* ended, and the values substituted into its argv.
Invocation(kind, argv, outcome, subst) ==
    [kind |-> kind, argv |-> argv, outcome |-> outcome, subst |-> subst]

Started(kind) == {i \in DOMAIN invocations : invocations[i].kind = kind}

Run(kind, argv, outcome, subst) ==
    invocations' = Append(invocations, Invocation(kind, argv, outcome, subst))

\* An exception no handler catches: the interpreter prints the traceback
\* and the process ends with status 1.
Crash(exc) ==
    /\ raised' = exc
    /\ pc' = "crashed"
    /\ exit_status' = <<1>>

\* sys.exit(n), or main() returning (n = 0).
Exit(n) ==
    /\ pc' = "exited"
    /\ exit_status' = <<n>>
    /\ raised' = raised

Goto(label) ==
    /\ pc' = label
    /\ exit_status' = exit_status
    /\ raised' = raised

(***************************************************************************)
(* check_prerequisites                                                     *)
(***************************************************************************)
\* Where the checker goes after the rustc query ended with outcome o:
\* both exceptions are caught and return False.
\* Faulty variant: a failed rustc query is reported and the checker carries on.
AfterRustcContinuing(o) ==
    /\ check_ret' = check_ret
    /\ Goto("check_stylus")

AfterRustc(o) ==
    IF o = "ok"
    THEN /\ check_ret' = check_ret
         /\ Goto("check_stylus")
    ELSE /\ check_ret' = "False"
         /\ Goto("main_check")

CheckRustc ==
    /\ pc = "check_rustc"
    /\ \E o \in Outcomes("rustc") :
          /\ Run("rustc_version", <<"rustc", "--version">>, o, NoSubst)
          /\ AfterRustc(o)
    /\ UNCHANGED <<installed, environ, wasm_exists, compile_ret, private_key,
                   mnemonic, owner_address, treasury_address, output,
                   contract_address, init_ret>>

CheckStylus ==
    /\ pc = "check_stylus"
    /\ \E o \in Outcomes("cargo") :
          /\ Run("stylus_version", <<"cargo", "stylus", "--version">>, o, NoSubst)
          /\ IF o = "ok"
             THEN /\ check_ret' = check_ret
                  /\ Goto("check_target")
             ELSE /\ check_ret' = "False"
                  /\ Goto("main_check")
    /\ UNCHANGED <<installed, environ, wasm_exists, compile_ret, private_key,
                   mnemonic, owner_address, treasury_address, output,
                   contract_address, init_ret>>

\* The handler of the third check catches CalledProcessError only.
TargetOutcome(o, next) ==
    CASE o = "ok" -> next
      [] o = "CalledProcessError" ->
            /\ check_ret' = "False"
            /\ Goto("main_check")
      [] OTHER ->
            /\ check_ret' = check_ret
            /\ Crash(o)

TARGET_LIST == <<"rustup", "target", "list", "--installed">>

\* The first `rustup target list --installed`, whose result is dropped.
CheckTargetList ==
    /\ pc = "check_target"
    /\ \E o \in Outcomes("rustup") :
          /\ Run("target_list", TARGET_LIST, o, NoSubst)
          /\ TargetOutcome(o, /\ check_ret' = check_ret
                              /\ Goto("check_target_again"))
    /\ UNCHANGED <<installed, environ, wasm_exists, compile_ret, private_key,
                   mnemonic, owner_address, treasury_address, output,
                   contract_address, init_ret>>

\* The second one, whose stdout is searched for the target's name.
CheckTargetListAgain ==
    /\ pc = "check_target_again"
    /\ \E o \in Outcomes("rustup"), listed \in BOOLEAN :
          /\ Run("target_list", TARGET_LIST, o, NoSubst)
          /\ TargetOutcome(o, IF listed
                              THEN /\ check_ret' = "True"
                                   /\ Goto("main_check")
                              ELSE /\ check_ret' = check_ret
                                   /\ Goto("target_add"))
    /\ UNCHANGED <<installed, environ, wasm_exists, compile_ret, private_key,
                   mnemonic, owner_address, treasury_address, output,
                   contract_address, init_ret>>

TargetAdd ==
    /\ pc = "target_add"
    /\ \E o \in Outcomes("rustup") :
          /\ Run("target_add",
                 <<"rustup", "target", "add", "wasm32-unknown-unknown">>, o, NoSubst)
          /\ TargetOutcome(o, /\ check_ret' = "True"
                              /\ Goto("main_check"))
    /\ UNCHANGED <<installed, environ, wasm_exists, compile_ret, private_key,
                   mnemonic, owner_address, treasury_address, output,
                   contract_address, init_ret>>

(***************************************************************************)
(* compile_contract                                                        *)
(***************************************************************************)
BUILD == <<"cargo", "build", "--target", "wasm32-unknown-unknown", "--release">>

\* The builder's result after a build that exited zero.
\* Faulty variant: the artifact is not looked for.
CompileResultUnchecked(exists) == "True"

CompileResult(exists) == IF exists THEN "True" ELSE "False"

\* A build that succeeds may write the artifact; no build removes one that
\* an earlier build left behind.
CompileContract ==
    /\ pc = "compile"
    /\ \E o \in Outcomes("cargo") :
          /\ Run("build", BUILD, o, NoSubst)
          /\ CASE o = "ok" ->
                    /\ wasm_exists' \in {wasm_exists, TRUE}
                    /\ compile_ret' = CompileResult(wasm_exists')
                    /\ Goto("main_compile")
               [] o = "CalledProcessError" ->
                    /\ wasm_exists' = wasm_exists
                    /\ compile_ret' = "False"
                    /\ Goto("main_compile")
               [] OTHER ->
                    /\ wasm_exists' = wasm_exists
                    /\ compile_ret' = compile_ret
                    /\ Crash(o)
    /\ UNCHANGED <<installed, environ, check_ret, private_key, mnemonic,
                   owner_address, treasury_address, output, contract_address,
                   init_ret>>

(***************************************************************************)
(* deploy_contract                                                         *)
(***************************************************************************)
\* The command line of the deploy, with its credential flag.
DeployCmd(pk, mn, rpc_url) ==
    <<"cargo", "stylus", "deploy", "--wasm-file", WASM_FILE,
      "--network", "sepolia", "--rpc-url", rpc_url>>
    \o (IF Truthy(pk) THEN <<"--private-key", pk>>
        ELSE IF Truthy(mn) THEN <<"--mnemonic", mn>>
        ELSE <<>>)

\* Whether the scan stops at this line: it has a keyword and "0x".
Qualifies(line) ==
    /\ Contains(Lower(line), KwDeployed) \/ Contains(Lower(line), KwAddress)
    /\ Contains(line, Ox)

\* "0x" + parts[1].split()[0][:40]; indexing the empty list raises.
ExtractAddress(line) ==
    LET parts == Split(line, Ox)
        words == SplitWs(parts[2])
    IN  IF words = <<>> THEN Raise("IndexError")
        ELSE Text(Ox \o Take(words[1], AddrLen))

\* The loop over output.split("\n").
RECURSIVE ScanLines(_)
ScanLines(lines) ==
    IF lines = <<>> THEN NoneText
    ELSE IF Qualifies(Head(lines)) /\ Len(Split(Head(lines), Ox)) > 1
         THEN ExtractAddress(Head(lines))
         ELSE ScanLines(Tail(lines))

ParseAddress(out) == ScanLines(Split(out, <<"\n">>))

\* Faulty variant: the deployer does not look at its credentials.
DeployProceedsAlways(pk, mn) == TRUE

\* Whether the deployer goes on to build and run its command.
DeployProceeds(pk, mn) == Truthy(pk) \/ Truthy(mn)

\* The function, called with (pk, mn) and the default rpc_url; `ret` is
\* where the caller continues when it returns.
deploy_contract(pk, mn, ret) ==
    IF ~DeployProceeds(pk, mn)
    THEN /\ contract_address' = NoneText
         /\ UNCHANGED <<invocations, output>>
         /\ Goto(ret)
    ELSE \E o \in Outcomes("cargo") :
            /\ Run("deploy", DeployCmd(pk, mn, ARBITRUM_SEPOLIA_RPC), o, NoSubst)
            /\ CASE o = "ok" ->
                      \E out \in Outputs :
                         LET found == ParseAddress(out)
                         IN  /\ output' = Text(out)
                             /\ IF found.kind \in {"str", "None"}
                                THEN /\ contract_address' = found
                                     /\ Goto(ret)
                                ELSE /\ contract_address' = contract_address
                                     /\ Crash(found.kind)
                 [] o = "CalledProcessError" ->
                      /\ contract_address' = NoneText
                      /\ output' = output
                      /\ Goto(ret)
                 [] OTHER ->
                      /\ UNCHANGED <<contract_address, output>>
                      /\ Crash(o)

DeployContract ==
    /\ pc = "deploy"
    /\ deploy_contract(private_key, mnemonic, "main_deploy")
    /\ UNCHANGED <<installed, environ, wasm_exists, check_ret, compile_ret,
                   private_key, mnemonic, owner_address, treasury_address,
                   init_ret>>

(***************************************************************************)
(* initialize_contract                                                     *)
(***************************************************************************)
\* Faulty variant: the initializer prefers the mnemonic.
InitializeCmdMnemonicFirst(pk, mn, rpc_url) ==
    <<"cargo", "stylus", "call", "--address", "{contract_address}",
      "--function", "init", "--args", "{owner_address},{treasury_address}",
      "--network", "sepolia", "--rpc-url", rpc_url>>
    \o (IF Truthy(mn) THEN <<"--mnemonic", mn>>
        ELSE IF Truthy(pk) THEN <<"--private-key", pk>>
        ELSE <<>>)

InitializeCmd(pk, mn, rpc_url) ==
    <<"cargo", "stylus", "call", "--address", "{contract_address}",
      "--function", "init", "--args", "{owner_address},{treasury_address}",
      "--network", "sepolia", "--rpc-url", rpc_url>>
    \o (IF Truthy(pk) THEN <<"--private-key", pk>>
        ELSE IF Truthy(mn) THEN <<"--mnemonic", mn>>
        ELSE <<>>)

InitializeContract ==
    /\ pc = "initialize"
    /\ \E o \in Outcomes("cargo") :
          /\ Run("call",
                 InitializeCmd(private_key, mnemonic, ARBITRUM_SEPOLIA_RPC), o,
                 Subst(contract_address.value, owner_address, treasury_address))
          /\ CASE o = "ok" ->
                    /\ init_ret' = "True"
                    /\ Goto("main_init")
               [] o = "CalledProcessError" ->
                    /\ init_ret' = "False"
                    /\ Goto("main_init")
               [] OTHER ->
                    /\ init_ret' = init_ret
                    /\ Crash(o)
    /\ UNCHANGED <<installed, environ, wasm_exists, check_ret, compile_ret,
                   private_key, mnemonic, owner_address, treasury_address,
                   output, contract_address>>

(***************************************************************************)
(* main                                                                    *)
(***************************************************************************)
\* Faulty variant: main does not look at the checker's result.
MainAfterCheckIgnoring ==
    /\ pc = "main_check"
    /\ Goto("compile")
    /\ UNCHANGED <<installed, environ, wasm_exists, invocations, check_ret,
                   compile_ret, private_key, mnemonic, owner_address,
                   treasury_address, output, contract_address, init_ret>>

\* if not check_prerequisites(): sys.exit(1)
MainAfterCheck ==
    /\ pc = "main_check"
    /\ IF check_ret = "True" THEN Goto("compile") ELSE Exit(1)
    /\ UNCHANGED <<installed, environ, wasm_exists, invocations, check_ret,
                   compile_ret, private_key, mnemonic, owner_address,
                   treasury_address, output, contract_address, init_ret>>

\* if not compile_contract(): sys.exit(1)
MainAfterCompile ==
    /\ pc = "main_compile"
    /\ IF compile_ret = "True" THEN Goto("credentials") ELSE Exit(1)
    /\ UNCHANGED <<installed, environ, wasm_exists, invocations, check_ret,
                   compile_ret, private_key, mnemonic, owner_address,
                   treasury_address, output, contract_address, init_ret>>

\* Whether main goes on to the deploy with these credentials.
CredentialGate(pk, mn) == Truthy(pk) \/ Truthy(mn)

\* Reads the credentials, exits when there is none, reads the addresses.
MainCredentials ==
    /\ pc = "credentials"
    /\ private_key' = getenv("PRIVATE_KEY")
    /\ mnemonic' = getenv("MNEMONIC")
    /\ IF CredentialGate(private_key', mnemonic')
       THEN /\ owner_address' = getenv("OWNER_ADDRESS")
            /\ treasury_address' = getenv("TREASURY_ADDRESS")
            /\ Goto("deploy")
       ELSE /\ UNCHANGED <<owner_address, treasury_address>>
            /\ Exit(1)
    /\ UNCHANGED <<installed, environ, wasm_exists, invocations, check_ret,
                   compile_ret, output, contract_address, init_ret>>

\* Faulty variant: one address is enough.
WantsInitializeEither(owner, treasury) == Truthy(owner) \/ Truthy(treasury)

\* Whether main calls the initializer after a deploy that returned addr.
WantsInitialize(owner, treasury) == Truthy(owner) /\ Truthy(treasury)

\* if not contract_address: sys.exit(1); then the initialize branch, or
\* the guidance and the end of main.  deploy_contract's locals are gone.
MainAfterDeploy ==
    /\ pc = "main_deploy"
    /\ IF ~TruthyText(contract_address) THEN Exit(1)
       ELSE IF WantsInitialize(owner_address, treasury_address)
            THEN Goto("initialize")
            ELSE Exit(0)
    /\ output' = UnsetText
    /\ UNCHANGED <<installed, environ, wasm_exists, invocations, check_ret,
                   compile_ret, private_key, mnemonic, owner_address,
                   treasury_address, contract_address, init_ret>>

\* Faulty variant: a failed initialization fails the run.
StatusAfterInitStrict(ok) == IF ok THEN 0 ELSE 1

\* The status main ends with after the initializer returned ok.
StatusAfterInit(ok) == 0

\* Either message is printed and main returns.
MainAfterInit ==
    /\ pc = "main_init"
    /\ Exit(StatusAfterInit(init_ret = "True"))
    /\ UNCHANGED <<installed, environ, wasm_exists, invocations, check_ret,
                   compile_ret, private_key, mnemonic, owner_address,
                   treasury_address, output, contract_address, init_ret>>

(***************************************************************************)
(* Specifications.                                                         *)
(***************************************************************************)
Locals ==
    /\ invocations = <<>>
    /\ check_ret = Unset
    /\ compile_ret = Unset
    /\ owner_address = Unset
    /\ treasury_address = Unset
    /\ output = UnsetText
    /\ contract_address = UnsetText
    /\ init_ret = Unset
    /\ raised = None
    /\ exit_status = <<>>

\* The script is run: main() starts with the prerequisite check.
Init ==
    /\ pc = "check_rustc"
    /\ installed \in SUBSET {"rustc", "cargo", "rustup"}
    /\ environ \in Environments
    /\ wasm_exists \in BOOLEAN
    /\ private_key = Unset
    /\ mnemonic = Unset
    /\ Locals

Next ==
    \/ CheckRustc
    \/ CheckStylus
    \/ CheckTargetList
    \/ CheckTargetListAgain
    \/ TargetAdd
    \/ MainAfterCheck
    \/ CompileContract
    \/ MainAfterCompile
    \/ MainCredentials
    \/ DeployContract
    \/ MainAfterDeploy
    \/ InitializeContract
    \/ MainAfterInit

Spec == Init /\ [][Next]_vars

\* deploy_contract called on its own, with any pair of credentials.
InitDeploy ==
    /\ pc = "call_deploy"
    /\ installed \in SUBSET {"cargo"}
    /\ environ = [n \in {"PRIVATE_KEY", "MNEMONIC", "OWNER_ADDRESS",
                         "TREASURY_ADDRESS"} |-> None]
    /\ wasm_exists \in BOOLEAN
    /\ private_key \in EnvValues("0xKEY")
    /\ mnemonic \in {None, "test test junk"}
    /\ Locals

CallDeploy ==
    /\ pc = "call_deploy"
    /\ deploy_contract(private_key, mnemonic, "returned")
    /\ UNCHANGED <<installed, environ, wasm_exists, check_ret, compile_ret,
                   private_key, mnemonic, owner_address, treasury_address,
                   init_ret>>

\* Either the script is run or deploy_contract is called on its own.
SpecCalls == (Init \/ InitDeploy) /\ [][Next \/ CallDeploy]_vars

(***************************************************************************)
(* Notions the properties use.                                             *)
(***************************************************************************)
Ended == pc \in {"exited", "crashed"}

\* The run is one of main(): main starts with the rustc query.
MainRun == Started("rustc_version") # {}

\* A credential is supplied when its variable holds a non-empty value.
KeySupplied == Truthy(environ["PRIVATE_KEY"])
MnemonicSupplied == Truthy(environ["MNEMONIC"])

Outcome(kind) == {invocations[i].outcome : i \in Started(kind)}

CheckKinds == {"rustc_version", "stylus_version", "target_list", "target_add"}
AllKinds == CheckKinds \cup {"build", "deploy", "call"}

\* The words of an argument vector that are credential flags.
CredentialFlags(argv) ==
    {i \in DOMAIN argv : argv[i] \in {"--private-key", "--mnemonic"}}

\* The argument vector ends with this flag and this value.
EndsWith(argv, flag, value) ==
    /\ Len(argv) >= 2
    /\ argv[Len(argv) - 1] = flag
    /\ argv[Len(argv)] = value

(***************************************************************************)
(* C1.  A run of main() that has ended has exit status zero exactly when   *)
(* the prerequisite check returned true, the build returned true, a        *)
(* credential is supplied and the deployer returned an address; so the     *)
(* status is non-zero when the check fails, the build fails, no credential *)
(* is supplied or the deployer returns no address (a stage that raises     *)
(* has not returned its success value), and zero in every other run: also  *)
(* when the initialize command exits non-zero, and when the owner or the   *)
(* treasury address is absent.                                             *)
(***************************************************************************)
ExitStatusContract ==
    Ended =>
       /\ exit_status = <<0>> <=>
             /\ check_ret = "True"
             /\ compile_ret = "True"
             /\ KeySupplied \/ MnemonicSupplied
             /\ TruthyText(contract_address)
       /\ exit_status # <<0>> => exit_status = <<1>>
       /\ init_ret = "False" => exit_status = <<0>>
       /\ (/\ TruthyText(contract_address)
           /\ ~(Truthy(owner_address) /\ Truthy(treasury_address)))
             => exit_status = <<0>>

\* The initialize command exited non-zero and the run ended with status 0.
InitFailedRunEnded ==
    /\ pc = "exited"
    /\ Outcome("call") = {"CalledProcessError"}
    /\ init_ret = "False"
    /\ exit_status = <<0>>

(***************************************************************************)
(* C2.  Once check_prerequisites has returned false, the run ends before   *)
(* the builder: main is at its exit test or has exited, and no build,      *)
(* deploy or call command has been started.                                *)
(***************************************************************************)
FailedCheckStopsRun ==
    check_ret = "False" =>
       /\ pc \in {"main_check", "exited"}
       /\ Started("build") = {}
       /\ Started("deploy") = {}
       /\ Started("call") = {}
       /\ compile_ret = Unset

\* A run whose check failed has exited.
FailedCheckExited ==
    /\ check_ret = "False"
    /\ pc = "exited"
    /\ exit_status = <<1>>

(***************************************************************************)
(* C3.  The deployer is entered only after a build command that exited     *)
(* zero and with the artifact file in place; after a build command that    *)
(* exited non-zero the builder returns false and the deployer is never     *)
(* entered, whether or not an artifact file exists; after one that exited  *)
(* zero without the artifact the builder returns false as well.            *)
(***************************************************************************)
DeployerEntered ==
    \/ pc \in {"deploy", "main_deploy", "initialize", "main_init"}
    \/ Started("deploy") # {}
    \/ contract_address # UnsetText

DeployOnlyAfterBuild ==
    /\ DeployerEntered => Outcome("build") = {"ok"} /\ wasm_exists
    /\ "CalledProcessError" \in Outcome("build") =>
          /\ compile_ret = "False"
          /\ pc \in {"main_compile", "exited"}
          /\ ~DeployerEntered
    /\ (Outcome("build") = {"ok"} /\ ~wasm_exists) =>
          /\ compile_ret = "False"
          /\ ~DeployerEntered

\* The build command exited non-zero with an artifact file in place, and
\* the run has ended.
BuildFailedWithArtifact ==
    /\ Outcome("build") = {"CalledProcessError"}
    /\ wasm_exists
    /\ pc = "exited"

(***************************************************************************)
(* C4.  deploy_contract called with neither a private key nor a mnemonic   *)
(* returns None and has started no external process; and in a run of       *)
(* main() with neither credential supplied, no deploy command and no call  *)
(* command is ever started.                                                *)
(***************************************************************************)
NoCredentialNoProcess ==
    /\ (pc \in {"returned", "crashed"} /\ ~MainRun
          /\ ~Truthy(private_key) /\ ~Truthy(mnemonic)) =>
          /\ pc = "returned"
          /\ contract_address = NoneText
          /\ invocations = <<>>
    /\ (MainRun /\ ~KeySupplied /\ ~MnemonicSupplied) =>
          /\ Started("deploy") = {}
          /\ Started("call") = {}
          /\ ~DeployerEntered

\* deploy_contract has returned from a call without credentials.
DeployReturnedWithoutCredential ==
    /\ pc = "returned"
    /\ ~Truthy(private_key)
    /\ ~Truthy(mnemonic)
    /\ contract_address = NoneText

(***************************************************************************)
(* C5.  The initialize call command is started only if the owner address   *)
(* and the treasury address are both supplied and the deployer returned    *)
(* an address; it is started at most once; and when the deploy command     *)
(* exited zero but no address was found in its output, it is not started.  *)
(***************************************************************************)
InitializeOnlyWhenDeployed ==
    /\ Started("call") # {} =>
          /\ Truthy(environ["OWNER_ADDRESS"])
          /\ Truthy(environ["TREASURY_ADDRESS"])
          /\ TruthyText(contract_address)
          /\ Outcome("deploy") = {"ok"}
    /\ Cardinality(Started("call")) <= 1
    /\ (Outcome("deploy") = {"ok"} /\ contract_address = NoneText) =>
          /\ Started("call") = {}
          /\ pc \in {"main_deploy", "exited"}

\* The initialize call command has been started.
InitializeStarted ==
    /\ Started("call") # {}
    /\ Truthy(owner_address)
    /\ Truthy(treasury_address)

NoCommandTwice ==
    \A k \in AllKinds : Cardinality(Started(k)) <= 1

(***************************************************************************)
(* C8, as claimed.  When the deploy command has exited zero, the           *)
(* deployer's result is None if no line of the output has a keyword and    *)
(* "0x", and otherwise "0x" followed by exactly the 40 characters that     *)
(* follow the first "0x" of the first such line.                           *)
(***************************************************************************)
QualifyingLines(out) ==
    LET lines == Split(out, <<"\n">>)
    IN  {i \in DOMAIN lines :
            /\ Contains(Lower(lines[i]), KwDeployed)
                  \/ Contains(Lower(lines[i]), KwAddress)
            /\ Contains(lines[i], Ox)}

FortyAfterOx(line) ==
    SubSeq(line, Find(line, Ox) + 2, Find(line, Ox) + 41)

AddressIsFortyCharacters ==
    (output.kind = "str" /\ pc \in {"main_deploy", "returned", "crashed"}) =>
       LET lines == Split(output.value, <<"\n">>)
           q == QualifyingLines(output.value)
       IN  IF q = {} THEN pc # "crashed" /\ contract_address = NoneText
           ELSE LET first == CHOOSE i \in q : \A j \in q : i <= j
                IN  /\ pc # "crashed"
                    /\ contract_address.kind = "str"
                    /\ Len(contract_address.value) = 42
                    /\ contract_address.value = Ox \o FortyAfterOx(lines[first])

(***************************************************************************)
(* C9.  Every deploy command and every initialize call command carries     *)
(* exactly one credential flag, at its end: --private-key with the key     *)
(* when a private key is supplied, --mnemonic with the mnemonic when only  *)
(* a mnemonic is; and when a private key is supplied no word of the        *)
(* command is the mnemonic.                                                *)
(***************************************************************************)
OneCredentialFlag ==
    \A i \in Started("deploy") \cup Started("call") :
       LET argv == invocations[i].argv
       IN  /\ Cardinality(CredentialFlags(argv)) = 1
           /\ KeySupplied =>
                 /\ EndsWith(argv, "--private-key", environ["PRIVATE_KEY"])
                 /\ \A w \in DOMAIN argv : argv[w] # "--mnemonic"
                 /\ MnemonicSupplied =>
                       \A w \in DOMAIN argv : argv[w] # environ["MNEMONIC"]
           /\ ~KeySupplied =>
                 /\ MnemonicSupplied
                 /\ EndsWith(argv, "--mnemonic", environ["MNEMONIC"])

\* Both credentials are supplied and both commands have been started.
BothCommandsWithBothCredentials ==
    /\ KeySupplied
    /\ MnemonicSupplied
    /\ Started("deploy") # {}
    /\ Started("call") # {}

(***************************************************************************)
(* C10, as claimed.  No stage function is left by an unhandled error:      *)
(* every run ends through one of main's own exits.                         *)
(***************************************************************************)
NoUnhandledError ==
    /\ raised = None
    /\ pc # "crashed"

====
